---- MODULE Spec2Model ----
(***************************************************************************)
(* Model of the navigation / playback controller of slide_show.py          *)
(* (class SlideShow): the position in the catalog, the random-replay        *)
(* history, the auto-advance timer driven by root.after, and the keyboard   *)
(* debounce.  Every action is one Tk callback, run to completion.           *)
(***************************************************************************)
EXTENDS Integers, Sequences, FiniteSets, TLC

(* ----------------------------- bounds ---------------------------------- *)
\* Files that can exist under the selected folders: ids 1..MaxFiles.
MaxFiles == 2
\* Most after-callbacks of next_image that the model lets be pending at once.
MaxPending == 2
\* The clock of the timed specification stops at MaxTime milliseconds.
MaxTime == 600
\* Longest history from which the auto-advance specification still calls
\* next_image in random mode.
MaxReplay == 2
\* Cap of the counter of resample-loop iterations.
MaxResample == 2

(* ------------------------ program constants ---------------------------- *)
min_duration == 500
max_duration == 10000
default_duration == 3000
key_debounce_delay == 300
HistoryCap == 15
\* Granularity of the model's clock, in milliseconds.
Quantum == 100

(* ------------------------------ state ---------------------------------- *)
VARIABLES
    image_files,              \* the catalog: sorted sequence of file ids
    current_index,
    is_random_mode,
    random_sequence,          \* sequence of visited indices (0-based values)
    random_sequence_position, \* 0-based position in random_sequence, or -1
    slideshow_running,        \* FALSE also stands for the attribute not being set yet:
                              \* every read is "hasattr(...) and self.slideshow_running"
    display_duration,         \* a float: [ms |-> the nearest whole millisecond,
                              \*           err |-> sign of (value - ms)]
    pending_timer,            \* "unset" (no attribute yet) or "set"
    ticks,                    \* pending after-callbacks of next_image
    last_key_time,            \* key -> time of last accepted press, -1 = absent
    navigation_locked,
    unlocks,                  \* pending after-callbacks clearing the lock
    now,                      \* time.time() * 1000
    dispatch,                 \* key whose root binding is still to run in this event, or "none"
    prevIndex,                \* current_index just before the latest next_image call, -1 = none
    runStart,                 \* index at which the current run of sequential next_image calls began
    runLen,                   \* number of sequential next_image calls in that run
    trimNote,                 \* "trimmed": the latest navigation call was a next_image that
                              \* cut the history to its cap; "undone": it was the
                              \* previous_image right after such a call; else "none"
    shownId,                  \* id of the file display_image was last called with, 0 = none
    lastCall,                 \* the latest call of next_image ("next"), previous_image
                              \* ("prev"), toggle_random_mode ("toggle") or a debounced
                              \* handler that returned early ("rejected"): from =
                              \* current_index when it began, shown = number of
                              \* display_image calls it made, draws = 1 if it drew a
                              \* random index, seq / pos = random_sequence and
                              \* random_sequence_position when a next_image or
                              \* previous_image call began (<<>>, -1 for the others)
    fwdLog,                   \* log of the forward commands (Right key, Next button):
                              \* time / src of the last one that called next_image,
                              \* keyTime of the last such key press, flip toggled by
                              \* every such call, rejected = a Right key press was
                              \* rejected since
    keyLog,                   \* key = the key of the latest invocation of a debounced
                              \* handler, flip toggled by every invocation
    new_index,                \* the local new_index of a next_image call that is inside
                              \* lines 701-704, -1 when no call is there
    resamples                 \* number of times the body of the resample loop (line 704)
                              \* ran in the latest draw, counted up to MaxResample

navVars == <<image_files, current_index, is_random_mode, random_sequence,
             random_sequence_position>>
schedVars == <<slideshow_running, display_duration, pending_timer, ticks>>
inputVars == <<last_key_time, navigation_locked, unlocks, now, dispatch>>
obsVars == <<prevIndex, runStart, runLen, trimNote, shownId, lastCall>>
loopVars == <<new_index, resamples>>
vars == <<navVars, schedVars, inputVars, obsVars, fwdLog, keyLog, loopVars>>

(* ----------------------------- helpers --------------------------------- *)
\* Python list indexing with a 0-based index.
At(s, i) == s[i + 1]

\* Python s[-1].
Last(s) == s[Len(s)]

\* Python s[-n:] for Len(s) >= n.
LastN(s, n) == SubSeq(s, Len(s) - n + 1, Len(s))

\* Python list.index(x): 0-based position of the first occurrence.
IndexOf(s, x) == (CHOOSE i \in 1..Len(s) : s[i] = x /\ \A j \in 1..(i - 1) : s[j] # x) - 1

RECURSIVE SortedSeq(_)
\* list.sort() of a set of distinct file ids.
SortedSeq(S) ==
    IF S = {} THEN <<>>
    ELSE LET m == CHOOSE x \in S : \A y \in S : x <= y
         IN <<m>> \o SortedSeq(S \ {m})

\* What load_images can find on disk: any subset of the files, sorted because
\* is_random_mode is False whenever it is called.
load_images == {SortedSeq(S) : S \in SUBSET (1..MaxFiles)}

\* random.randint(lo, hi)
randint(lo, hi) == lo..hi

\* int(d) of a float d >= 0: truncation.
Truncate(d) == IF d.err < 0 THEN d.ms - 1 ELSE d.ms

\* int(self.display_duration)
IntDuration == Truncate(display_duration)

(* --------------------------- after-callbacks --------------------------- *)
\* self.pending_timer = self.root.after(d, self.next_image): the new handle
\* replaces the stored one; callbacks scheduled earlier stay pending.
\* A callback records its delay int(d) and the float d it was computed from.
Schedule(tk, d) ==
    Append([i \in DOMAIN tk |-> [tk[i] EXCEPT !.tracked = FALSE]],
           [delay |-> Truncate(d), period |-> d, tracked |-> TRUE])

\* self.root.after_cancel(self.pending_timer): removes the callback the stored
\* handle names, if it is still pending.
CancelTracked(tk) == SelectSeq(tk, LAMBDA t : ~t.tracked)

RemoveAt(s, i) == SubSeq(s, 1, i - 1) \o SubSeq(s, i + 1, Len(s))

(* ------------------------------- Init ---------------------------------- *)
\* After __init__, select_photos_folder and finish_selection: the catalog is
\* loaded and sorted; start_slideshow runs only when it is non-empty.
Init ==
    /\ image_files \in load_images
    /\ current_index = 0
    /\ is_random_mode = FALSE
    /\ random_sequence = <<>>
    /\ random_sequence_position = -1
    /\ slideshow_running = FALSE
    /\ display_duration = [ms |-> default_duration, err |-> 0]
    /\ pending_timer = "unset"
    /\ ticks = <<>>
    /\ last_key_time = [k \in {"Left", "Right"} |-> -1]
    /\ navigation_locked = FALSE
    /\ unlocks = <<>>
    /\ now = 0
    /\ dispatch = "none"
    /\ prevIndex = -1
    /\ runStart = 0
    /\ runLen = 0
    /\ trimNote = "none"
    /\ shownId = IF image_files = <<>> THEN 0 ELSE image_files[1]
    /\ lastCall = [op |-> "none", from |-> 0, seq |-> <<>>, pos |-> -1, shown |-> 0,
                    draws |-> 0]
    /\ fwdLog = [time |-> -1, src |-> "none", keyTime |-> -1, flip |-> FALSE, rejected |-> FALSE]
    /\ keyLog = [key |-> "none", flip |-> FALSE]
    /\ new_index = -1
    /\ resamples = 0

(* --------------------------- navigation -------------------------------- *)
N == Len(image_files)

\* The step forward without the wrap-around: it stops at the last image.
SeqForward_clamped(i, n) == IF i + 1 >= n THEN i ELSE i + 1

\* Sequential step forward: (current_index + 1) % len(image_files).
SeqForward(i, n) == (i + 1) % n

\* Sequential step backward: (current_index - 1) % len(image_files).
SeqBackward(i, n) == (i - 1) % n

\* The draw without the resample loop.
Resample_once(cur, n) == randint(0, n - 1)

\* The draw of next_image and its resample loop: every value the loop can
\* leave in new_index.
Resample(cur, n) == {d \in randint(0, n - 1) : ~(d = cur /\ n > 1)}

\* The history left to grow.
TrimAfterDraw_never(s) == s

\* The trim keeping the oldest entries.
TrimAfterDraw_keepOldest(s) == IF Len(s) > HistoryCap THEN SubSeq(s, 1, HistoryCap) ELSE s

\* "Keep only last 15 items in sequence" after the draw was appended.
TrimAfterDraw(s) == IF Len(s) > HistoryCap THEN LastN(s, HistoryCap) ELSE s

\* The same trim in previous_image, after current_index was appended.
TrimAfterAppend(s) == IF Len(s) > HistoryCap THEN LastN(s, HistoryCap) ELSE s

\* The position one past the last entry.
TailPos_pastEnd(s) == Len(s)

\* random_sequence_position after the draw: len(self.random_sequence) - 1 of
\* the trimmed sequence.
TailPos(s) == Len(s) - 1

\* The step back with current_index read before the position is decremented.
StepBack_staleIndex(s, p) ==
    IF p > 0
    THEN [idx |-> At(s, p), seq |-> s, pos |-> p - 1]
    ELSE [idx |-> At(s, 0), seq |-> s, pos |-> 0]

\* The step back that wraps from the first item to the last.
StepBack_wraps(s, p) ==
    IF p > 0
    THEN [idx |-> At(s, p - 1), seq |-> s, pos |-> p - 1]
    ELSE [idx |-> Last(s), seq |-> s, pos |-> Len(s) - 1]

\* "Go to previous item in sequence", for a sequence of more than one item:
\* step back unless already at the first item.
StepBack(s, p) ==
    IF p > 0
    THEN [idx |-> At(s, p - 1), seq |-> s, pos |-> p - 1]
    ELSE [idx |-> At(s, 0), seq |-> s, pos |-> 0]

\* The redo with current_index read before the position is incremented.
Redo_staleIndex(s, p) ==
    [idx |-> At(s, p), seq |-> s, pos |-> p + 1, cut |-> FALSE, draws |-> 0]

\* "We're in the middle - continue the existing sequence": the redo of lines
\* 692-693.
Redo(s, p) ==
    [idx |-> At(s, p + 1), seq |-> s, pos |-> p + 1, cut |-> FALSE, draws |-> 0]

\* Lines 688-721 of next_image for a non-empty catalog: the possible new
\* values of (current_index, random_sequence, random_sequence_position).
NextOutcomes ==
    IF is_random_mode
    THEN IF /\ random_sequence_position >= 0
            /\ random_sequence_position < Len(random_sequence) - 1
         THEN {Redo(random_sequence, random_sequence_position)}
         ELSE LET s1 == IF random_sequence = <<>> \/ Last(random_sequence) # current_index
                        THEN Append(random_sequence, current_index)
                        ELSE random_sequence
              IN {[idx |-> d,
                   seq |-> TrimAfterDraw(Append(s1, d)),
                   pos |-> TailPos(TrimAfterDraw(Append(s1, d))),
                   cut |-> Len(Append(s1, d)) > HistoryCap,
                   draws |-> 1] :
                  d \in Resample(current_index, N)}
    ELSE {[idx |-> SeqForward(current_index, N), seq |-> <<>>, pos |-> -1, cut |-> FALSE,
           draws |-> 0]}

\* Lines 735-768 of previous_image for a non-empty catalog.
PrevOutcomes ==
    IF is_random_mode
    THEN LET atEnd == \/ random_sequence_position = -1
                      \/ random_sequence_position = Len(random_sequence) - 1
             add == atEnd /\ (random_sequence = <<>> \/ Last(random_sequence) # current_index)
             s1 == IF add THEN TrimAfterAppend(Append(random_sequence, current_index))
                   ELSE random_sequence
             p1 == IF add THEN Len(s1) - 1 ELSE random_sequence_position
         IN IF Len(s1) > 1
            THEN {StepBack(s1, p1)}
            ELSE IF s1 # <<>>
                 THEN {[idx |-> At(s1, 0), seq |-> s1, pos |-> 0]}
                 ELSE {[idx |-> d, seq |-> s1, pos |-> p1] : d \in randint(0, N - 1)}
    ELSE {[idx |-> SeqBackward(current_index, N), seq |-> random_sequence, pos |-> -1]}

\* display_image is called only where the index changed.
DisplayCalls_onChange(idx) == IF idx \in 0..(N - 1) /\ idx # current_index THEN 1 ELSE 0

\* Number of display_image calls of lines 723-724 (770-771) of a call that
\* ends with current_index = idx: image_files[idx] raises IndexError on an
\* index outside the catalog, and an empty catalog returned at line 686 (733).
DisplayCalls(idx) == IF idx \in 0..(N - 1) THEN 1 ELSE 0

\* The reschedule placed before the guard and the lookup.
Reschedules_unguarded(idx) == slideshow_running

\* Lines 727-728 are reached, with auto-advance on, by a next_image call that
\* ends with current_index = idx.
Reschedules(idx) == DisplayCalls(idx) = 1 /\ slideshow_running

\* The file on the canvas after such a call.
Canvas(idx) == IF DisplayCalls(idx) = 1 THEN At(image_files, idx) ELSE shownId

\* next_image, called with tk as the pending after-callbacks of next_image.
next_image(tk) ==
    /\ prevIndex' = current_index
    /\ IF image_files = <<>>
       THEN /\ UNCHANGED navVars
            /\ UNCHANGED <<runStart, runLen>>
            /\ trimNote' = "none"
            /\ lastCall' = [op |-> "next", from |-> current_index,
                            seq |-> random_sequence, pos |-> random_sequence_position,
                            shown |-> 0, draws |-> 0]
       ELSE \E o \in NextOutcomes :
            /\ current_index' = o.idx
            /\ random_sequence' = o.seq
            /\ random_sequence_position' = o.pos
            /\ UNCHANGED <<image_files, is_random_mode>>
            /\ trimNote' = IF o.cut THEN "trimmed" ELSE "none"
            /\ lastCall' = [op |-> "next", from |-> current_index,
                            seq |-> random_sequence, pos |-> random_sequence_position,
                            shown |-> DisplayCalls(o.idx), draws |-> o.draws]
            /\ IF is_random_mode
               THEN runStart' = o.idx /\ runLen' = 0
               ELSE IF runLen < N
                    THEN runStart' = runStart /\ runLen' = runLen + 1
                    ELSE runStart' = current_index /\ runLen' = 1
    /\ shownId' = Canvas(current_index')
    /\ UNCHANGED <<slideshow_running, display_duration>>
    /\ IF Reschedules(current_index')
       THEN /\ ticks' = Schedule(tk, display_duration)
            /\ pending_timer' = "set"
       ELSE /\ ticks' = tk
            /\ UNCHANGED pending_timer

\* previous_image.
previous_image ==
    /\ prevIndex' = -1
    /\ trimNote' = IF trimNote = "trimmed" THEN "undone" ELSE "none"
    /\ UNCHANGED schedVars
    /\ IF image_files = <<>>
       THEN /\ UNCHANGED <<navVars, runStart, runLen>>
            /\ lastCall' = [op |-> "prev", from |-> current_index,
                            seq |-> random_sequence, pos |-> random_sequence_position,
                            shown |-> 0, draws |-> 0]
       ELSE \E o \in PrevOutcomes :
            /\ current_index' = o.idx
            /\ random_sequence' = o.seq
            /\ random_sequence_position' = o.pos
            /\ UNCHANGED <<image_files, is_random_mode>>
            /\ runStart' = o.idx
            /\ runLen' = 0
            /\ lastCall' = [op |-> "prev", from |-> current_index,
                            seq |-> random_sequence, pos |-> random_sequence_position,
                            shown |-> DisplayCalls(o.idx),
                            draws |-> IF is_random_mode /\ o.seq = <<>> THEN 1 ELSE 0]
    /\ shownId' = Canvas(current_index')

\* The history a switch to random mode starts with, left empty.
FreshSequence_empty == <<>>

\* "Starting fresh - initialize sequence with current index"
FreshSequence == <<current_index>>

\* The history kept when random mode is turned off.
ClearedSequence_kept == random_sequence

\* "Clear sequence when turning off - will create new one when turned on again"
ClearedSequence == <<>>

\* toggle_random_mode: turning random mode off reloads the catalog (line 801,
\* written last here: nothing else in the call reads or writes image_files).
toggle_random_mode ==
    LET was_random == is_random_mode
    IN /\ is_random_mode' = ~is_random_mode
       /\ IF ~is_random_mode
          THEN /\ IF ~was_random
                  THEN /\ random_sequence' = FreshSequence
                       /\ random_sequence_position' = 0
                  ELSE IF random_sequence = <<>>
                       THEN /\ random_sequence' = <<current_index>>
                            /\ random_sequence_position' = 0
                       ELSE IF \E i \in 1..Len(random_sequence) : random_sequence[i] = current_index
                            THEN /\ random_sequence_position' = IndexOf(random_sequence, current_index)
                                 /\ UNCHANGED random_sequence
                            ELSE /\ random_sequence' = Append(random_sequence, current_index)
                                 /\ random_sequence_position' = Len(random_sequence)
          ELSE /\ random_sequence' = ClearedSequence
               /\ random_sequence_position' = -1
       /\ UNCHANGED current_index
       /\ UNCHANGED schedVars
       /\ prevIndex' = -1
       /\ trimNote' = "none"
       /\ runStart' = current_index
       /\ runLen' = 0
       /\ UNCHANGED shownId
       /\ lastCall' = [op |-> "toggle", from |-> current_index, seq |-> <<>>, pos |-> -1,
                       shown |-> 0, draws |-> 0]
       /\ IF ~is_random_mode
          THEN UNCHANGED image_files
          ELSE image_files' \in load_images

(* ------------------- the draw of next_image, by steps ------------------ *)
\* next_image takes the branch that draws a new index: random mode, a
\* non-empty catalog, and the position not before the last item.
AtTail ==
    /\ is_random_mode
    /\ image_files # <<>>
    /\ ~(/\ random_sequence_position >= 0
         /\ random_sequence_position < Len(random_sequence) - 1)

\* The loop condition without the test of the catalog size.
ResampleAgain_anySize(d, cur, n) == d = cur

\* while new_index == self.current_index and len(self.image_files) > 1
ResampleAgain(d, cur, n) == d = cur /\ n > 1

\* Line 701: new_index = random.randint(0, len(self.image_files) - 1).
DrawStart ==
    /\ new_index = -1
    /\ new_index' \in randint(0, N - 1)
    /\ resamples' = 0
    /\ UNCHANGED <<navVars, schedVars, inputVars, obsVars, fwdLog, keyLog>>

\* Line 704: the loop condition holds and the body draws again.
DrawAgain ==
    /\ new_index # -1
    /\ ResampleAgain(new_index, current_index, N)
    /\ new_index' \in randint(0, N - 1)
    /\ resamples' = IF resamples < MaxResample THEN resamples + 1 ELSE resamples
    /\ UNCHANGED <<navVars, schedVars, inputVars, obsVars, fwdLog, keyLog>>

\* The loop condition fails: lines 706-728 run with the index drawn.
DrawDone ==
    /\ new_index # -1
    /\ ~ResampleAgain(new_index, current_index, N)
    /\ next_image(ticks)
    /\ current_index' = new_index
    /\ new_index' = -1
    /\ UNCHANGED <<resamples, inputVars, fwdLog, keyLog>>

(* --------------------------- auto-advance ------------------------------ *)
\* Positions of the speed slider (of 0..100) that the model tries.
SliderValues == {0, 80, 99, 100}

\* Slider positions at which the double-precision result of the formula of
\* update_speed falls just below, respectively just above, the exact value.
RoundsBelow == {31, 32, 33, 34, 56, 66, 67, 68, 78, 80, 81, 89, 90, 91, 92, 93}
RoundsAbove == {41, 42, 43, 44, 69, 70, 71, 72, 82, 83, 84, 85, 86, 94, 95, 96, 97, 98, 99}

\* The formula of update_speed without its offset min_duration.
Duration_noOffset(slider_value) ==
    [ms |-> ((max_duration - min_duration) * (100 - slider_value)) \div 100,
     err |-> 0]

\* min_duration + (max_duration - min_duration) * (1 - slider_value / 100),
\* in double precision.
Duration(slider_value) ==
    [ms |-> min_duration + ((max_duration - min_duration) * (100 - slider_value)) \div 100,
     err |-> IF slider_value \in RoundsBelow THEN -1
             ELSE IF slider_value \in RoundsAbove THEN 1 ELSE 0]

\* toggle_auto_advance (also reached through toggle_mode).
toggle_auto_advance ==
    /\ slideshow_running' = ~slideshow_running
    /\ IF ~slideshow_running
       THEN /\ ticks' = Schedule(ticks, display_duration)
            /\ pending_timer' = "set"
       ELSE /\ ticks' = IF pending_timer = "set" THEN CancelTracked(ticks) ELSE ticks
            /\ UNCHANGED pending_timer
    /\ UNCHANGED <<display_duration, navVars, obsVars>>

\* update_speed, the command of the speed slider.
update_speed(slider_value) ==
    /\ display_duration' = Duration(slider_value)
    /\ IF slideshow_running
       THEN /\ ticks' = Schedule(IF pending_timer = "set" THEN CancelTracked(ticks) ELSE ticks,
                                 Duration(slider_value))
            /\ pending_timer' = "set"
       ELSE UNCHANGED <<ticks, pending_timer>>
    /\ UNCHANGED <<slideshow_running, navVars, obsVars>>

(* ----------------------------- debounce -------------------------------- *)
\* A handler that never returns early.
Rejected_never(key) == FALSE

\* The early return on the time since the last accepted press of the same
\* key alone, without the navigation lock.
Rejected_windowOnly(key) ==
    /\ last_key_time[key] # -1
    /\ now - last_key_time[key] < key_debounce_delay

\* The two early returns of a debounced handler: the navigation lock, then
\* the time since the last accepted press of the same key.
Rejected(key) ==
    \/ navigation_locked
    \/ /\ last_key_time[key] # -1
       /\ now - last_key_time[key] < key_debounce_delay

\* The unlock scheduled only by a call that displayed an image.
ScheduleUnlock_onSuccess(u) ==
    IF lastCall'.shown = 1 THEN Append(u, now + key_debounce_delay) ELSE u

\* The finally clause of a debounced handler:
\* self.root.after(self.key_debounce_delay, lambda: setattr(self, 'navigation_locked', False)),
\* reached whether the navigation call returned or raised.
ScheduleUnlock(u) == Append(u, now + key_debounce_delay)

\* fwdLog after a forward command from src called next_image.
LogForward(src) ==
    [fwdLog EXCEPT !.time = now,
                   !.src = src,
                   !.keyTime = IF src = "key" THEN now ELSE @,
                   !.flip = ~@,
                   !.rejected = FALSE]

\* debounced_next_image: one invocation of the handler.
debounced_next_image ==
    IF Rejected("Right")
    THEN /\ UNCHANGED <<navVars, schedVars, prevIndex, runStart, runLen, trimNote, shownId>>
         /\ lastCall' = [op |-> "rejected", from |-> current_index, seq |-> <<>>, pos |-> -1,
                         shown |-> 0, draws |-> 0]
         /\ UNCHANGED <<last_key_time, navigation_locked, unlocks>>
         /\ fwdLog' = [fwdLog EXCEPT !.rejected = TRUE]
    ELSE /\ last_key_time' = [last_key_time EXCEPT !["Right"] = now]
         /\ navigation_locked' = TRUE
         /\ next_image(ticks)
         /\ unlocks' = ScheduleUnlock(unlocks)
         /\ fwdLog' = LogForward("key")

\* debounced_previous_image: one invocation of the handler.
debounced_previous_image ==
    IF Rejected("Left")
    THEN /\ UNCHANGED <<navVars, schedVars, prevIndex, runStart, runLen, trimNote, shownId>>
         /\ lastCall' = [op |-> "rejected", from |-> current_index, seq |-> <<>>, pos |-> -1,
                         shown |-> 0, draws |-> 0]
         /\ UNCHANGED <<last_key_time, navigation_locked, unlocks, fwdLog>>
    ELSE /\ last_key_time' = [last_key_time EXCEPT !["Left"] = now]
         /\ navigation_locked' = TRUE
         /\ previous_image
         /\ unlocks' = ScheduleUnlock(unlocks)
         /\ UNCHANGED fwdLog

KeyHandler(key) ==
    /\ IF key = "Right" THEN debounced_next_image ELSE debounced_previous_image
    /\ keyLog' = [key |-> key, flip |-> ~keyLog.flip]

(* ------------------------------ actions -------------------------------- *)
\* No key event is half-way through its bindings.
Idle == dispatch = "none"

\* The Next button: command=self.next_image.  observed says whether the
\* forward-command log records the click.
NextButton(observed) ==
    /\ Idle
    /\ next_image(ticks)
    /\ Len(ticks') <= MaxPending
    /\ UNCHANGED <<inputVars, keyLog, loopVars>>
    /\ fwdLog' = IF observed THEN LogForward("button") ELSE fwdLog

ButtonNext == NextButton(FALSE)

ClickNext == NextButton(TRUE)

\* The Previous button: command=self.previous_image.
ButtonPrevious ==
    /\ Idle
    /\ previous_image
    /\ UNCHANGED <<inputVars, fwdLog, keyLog, loopVars>>

\* One call of toggle_random_mode: a click on the Random button, or one of
\* the bindings of the r / R keys (with the focus on the canvas a key press
\* runs the canvas and the root binding, which is two of these steps).
ToggleRandom ==
    /\ Idle
    /\ UNCHANGED <<inputVars, fwdLog, keyLog, loopVars>>
    /\ toggle_random_mode

\* One call of toggle_auto_advance: a click on the Auto or Pause button, or
\* one of the bindings of the space key.
ToggleAuto ==
    /\ Idle
    /\ toggle_auto_advance
    /\ Len(ticks') <= MaxPending
    /\ UNCHANGED <<inputVars, fwdLog, keyLog, loopVars>>

\* The user moves the speed slider.
MoveSlider ==
    /\ Idle
    /\ \E v \in SliderValues : update_speed(v)
    /\ Len(ticks') <= MaxPending
    /\ UNCHANGED <<inputVars, fwdLog, keyLog, loopVars>>

\* A pending after-callback of next_image fires.
TickFire ==
    /\ Idle
    /\ \E i \in DOMAIN ticks : next_image(RemoveAt(ticks, i))
    /\ UNCHANGED <<inputVars, fwdLog, keyLog, loopVars>>

\* A KeyRelease-Right / KeyRelease-Left event.  With the focus on the canvas
\* the canvas binding runs now and the root binding of the same event (the
\* toplevel is in the canvas's bindtags) runs next; otherwise only the root
\* binding runs.
KeyRelease ==
    /\ Idle
    /\ \E key \in {"Left", "Right"}, onCanvas \in BOOLEAN :
        /\ KeyHandler(key)
        /\ dispatch' = IF onCanvas THEN key ELSE "none"
    /\ UNCHANGED <<now, loopVars>>

\* The root binding of a key event whose canvas binding has just run.
RootBinding ==
    /\ ~Idle
    /\ KeyHandler(dispatch)
    /\ dispatch' = "none"
    /\ UNCHANGED <<now, loopVars>>

\* The after-callback of a debounced handler clears the lock.
UnlockFire ==
    /\ Idle
    /\ \E i \in DOMAIN unlocks :
        /\ unlocks[i] <= now
        /\ unlocks' = RemoveAt(unlocks, i)
    /\ navigation_locked' = FALSE
    /\ UNCHANGED <<navVars, schedVars, obsVars, fwdLog, keyLog, loopVars, last_key_time, now,
                   dispatch>>

\* Time passes.
Advance ==
    /\ Idle
    /\ now + Quantum <= MaxTime
    /\ now' = now + Quantum
    /\ UNCHANGED <<navVars, schedVars, obsVars, fwdLog, keyLog, loopVars, last_key_time,
                   navigation_locked, unlocks, dispatch>>

(* --------------------------- specifications ---------------------------- *)
\* Navigation and auto-advance, without the clock: a pending callback may
\* fire at any later moment.
Next ==
    \/ ButtonNext
    \/ ButtonPrevious
    \/ ToggleRandom
    \/ ToggleAuto
    \/ MoveSlider
    \/ TickFire

Spec == Init /\ [][Next]_vars

\* The navigation controller alone: auto-advance stays off, so next_image is
\* reached through the Next button only (a timer tick and an accepted key
\* press call the same next_image).
NextNav ==
    \/ ButtonNext
    \/ ButtonPrevious
    \/ ToggleRandom

SpecNav == Init /\ [][NextNav]_vars

\* Keyboard and buttons against the clock, in sequential mode with
\* auto-advance off.
NextInput ==
    \/ KeyRelease
    \/ RootBinding
    \/ ClickNext
    \/ ButtonPrevious
    \/ UnlockFire
    \/ Advance

SpecInput == Init /\ [][NextInput]_vars

\* Auto-advance together with navigation and the mode switch, as in Spec, but
\* next_image is no longer called once the history holds more than MaxReplay
\* entries.
ShortHistory == Len(random_sequence) <= MaxReplay

NextSched ==
    \/ ButtonNext /\ ShortHistory
    \/ ButtonPrevious
    \/ ToggleRandom
    \/ ToggleAuto
    \/ MoveSlider
    \/ TickFire /\ ShortHistory

SpecSched == Init /\ [][NextSched]_vars

\* The keyboard against the clock with the mode switch, its catalog reloads
\* and the Next button, so that a debounced handler also meets an empty
\* catalog and an index outside it.  A key is pressed only while the unlock
\* it may schedule still falls within the clock's range.  The root binding
\* of an event follows its canvas binding (weak fairness of RootBinding);
\* after each event the Tk event loop is idle again, runs a due
\* after-callback, and time goes on (strong fairness of UnlockFire and
\* Advance, which a key event in progress disables for a moment).
InTime == now + key_debounce_delay <= MaxTime

NextKeys ==
    \/ KeyRelease /\ InTime
    \/ RootBinding
    \/ UnlockFire
    \/ Advance
    \/ ToggleRandom
    \/ ButtonNext /\ ShortHistory

SpecKeys ==
    /\ Init /\ [][NextKeys]_vars
    /\ WF_vars(RootBinding)
    /\ SF_vars(UnlockFire)
    /\ SF_vars(Advance)

\* The navigation controller with the draw of next_image taken step by
\* step: a click on Next that reaches line 701 is DrawStart, then the loop,
\* then DrawDone; while it runs no other handler does.  A fair random source
\* does not return current_index for ever.
NoDraw == new_index = -1

NextDraw ==
    \/ Idle /\ AtTail /\ ShortHistory /\ DrawStart
    \/ DrawAgain
    \/ DrawDone
    \/ NoDraw /\ ~AtTail /\ ButtonNext
    \/ NoDraw /\ ButtonPrevious
    \/ NoDraw /\ ToggleRandom

SpecDraw ==
    /\ Init /\ [][NextDraw]_vars
    /\ WF_vars(DrawAgain /\ new_index' # current_index)
    /\ WF_vars(DrawDone)

(* ------------------------------- claims -------------------------------- *)
\* C1: at most one auto-advance tick (after-callback of next_image) is
\* pending at any instant.
C1_AtMostOnePendingTick == Len(ticks) <= 1

\* C2: after auto-advance was toggled off no tick remains pending, so no
\* automatic next_image can occur until it is toggled on again.
C2_NoTickWhileStopped == ~slideshow_running => ticks = <<>>

\* C3 as stated: whenever a forward command from any source (Right key or
\* Next button) calls next_image, at least 300 ms have passed since the
\* previous forward command that did; so two forward commands less than
\* 300 ms apart never both advance.
C3_ForwardCommandsDebounced ==
    [][(N >= 2 /\ fwdLog'.flip # fwdLog.flip /\ fwdLog.time # -1)
        => now - fwdLog.time >= 300]_vars

\* C3 as amended: whenever a Right key press calls next_image, at least
\* 300 ms have passed since the previous Right key press that did (through
\* the canvas binding, the root binding or both); the Next button is not
\* debounced.
C3_KeyForwardDebounced ==
    [][(fwdLog'.flip # fwdLog.flip /\ fwdLog'.src = "key" /\ fwdLog.keyTime # -1)
        => now - fwdLog.keyTime >= 300]_vars

\* A Right key press was rejected less than 300 ms after an accepted one.
C3_Witness ==
    /\ fwdLog.src = "key"
    /\ fwdLog.rejected
    /\ now - fwdLog.keyTime < 300
    /\ N >= 2

\* C4: in sequential mode with N >= 2, the k-th consecutive next_image call
\* from a start index i of the catalog leaves current_index = (i + k) mod N,
\* which is i again after exactly N calls and not before.
C4_SequentialCycle ==
    (~is_random_mode /\ N >= 2 /\ runStart \in 0..(N - 1))
        => /\ current_index = (runStart + runLen) % N
           /\ (current_index = runStart) <=> (runLen \in {0, N})

\* A full cycle of N calls was made from a start index other than 0.
C4_Witness == ~is_random_mode /\ N >= 2 /\ runStart = 1 /\ runLen = N

\* C5: in random mode with N >= 2, the index current after a next_image call
\* (fresh draw or redo) differs from the index current just before it.
C5_RandomForwardMoves ==
    (is_random_mode /\ N >= 2 /\ prevIndex # -1) => current_index # prevIndex

\* A redo from the middle of the history has just been made.
C5_Witness ==
    /\ is_random_mode
    /\ N >= 2
    /\ prevIndex # -1
    /\ random_sequence_position < Len(random_sequence) - 1

\* C6: in random mode, a previous_image call right after a next_image call
\* returns current_index to its value before that next_image call: in every
\* state a next_image call has just left, every outcome of previous_image has
\* that value as its index.
C6_ForwardThenBackward ==
    (is_random_mode /\ lastCall.op = "next" /\ image_files # <<>>)
        => \A o \in PrevOutcomes : o.idx = lastCall.from

\* The previous_image call came right after a next_image call that trimmed
\* the history.
C6_Witness == is_random_mode /\ trimNote = "undone" /\ N >= 2

\* C7: the history never holds more than 15 entries.
C7_HistoryBounded == Len(random_sequence) <= 15

\* A next_image call has just cut the history back to 15 entries.
C7_Witness == trimNote = "trimmed" /\ Len(random_sequence) = 15

\* C8: whenever the catalog is non-empty, 0 <= current_index < len(catalog).
C8_IndexInRange == N > 0 => current_index \in 0..(N - 1)

\* C9: random_sequence_position is -1 or a valid index into random_sequence.
C9_PositionValid ==
    \/ random_sequence_position = -1
    \/ /\ 0 <= random_sequence_position
       /\ random_sequence_position <= Len(random_sequence) - 1

\* The position is strictly inside a full history, after backward steps.
C9_Witness ==
    /\ is_random_mode
    /\ Len(random_sequence) = 15
    /\ 0 < random_sequence_position
    /\ random_sequence_position < 14

\* C10: while auto-advance is running, no tick scheduled with a period other
\* than the stored one is pending: update_speed replaced every pending tick
\* by one with the new period.
C10_NoOldPeriodTick ==
    slideshow_running => \A i \in DOMAIN ticks : ticks[i].delay = IntDuration

\* C11 as stated: the latest navigation call (next_image, previous_image,
\* toggle_random_mode or a rejected debounced handler) called display_image
\* exactly once if it changed current_index, and not at all if it left
\* current_index unchanged.
C11_RenderOnChangeOnly ==
    /\ lastCall.shown \in {0, 1}
    /\ (lastCall.shown = 1) <=> (lastCall.from # current_index)

\* C11 as amended: the latest navigation call called display_image exactly
\* once if it was a next_image or previous_image call on a non-empty catalog
\* that ended on an index inside the catalog, whether or not the index
\* changed; it did not call display_image otherwise (empty catalog, index
\* outside the catalog, rejected debounced handler, toggle_random_mode).
C11_RenderPerCall ==
    lastCall.shown = IF /\ lastCall.op \in {"next", "prev"}
                        /\ N > 0
                        /\ current_index \in 0..(N - 1)
                     THEN 1 ELSE 0

\* A next_image or previous_image call displayed the image again although it
\* left current_index unchanged.
C11_Witness ==
    /\ lastCall.op \in {"next", "prev"}
    /\ lastCall.shown = 1
    /\ lastCall.from = current_index

C13_SingleImageFrame ==
    [][(N = 1 /\ (ButtonNext \/ ButtonPrevious))
        => UNCHANGED <<current_index, random_sequence, random_sequence_position>>]_vars

\* C14: a toggle_random_mode call, in either direction, leaves current_index
\* unchanged, and the file at current_index in the catalog after the call is
\* the one that was on the canvas before it.
C14_ModeSwitchKeepsImage ==
    [][ToggleRandom
        => /\ current_index' = current_index
           /\ shownId # 0
                => /\ current_index' \in 0..(Len(image_files') - 1)
                   /\ At(image_files', current_index') = shownId]_vars

\* display_duration lies in [min_duration, max_duration].
PeriodInRange(d) ==
    /\ min_duration <= d.ms
    /\ d.ms <= max_duration
    /\ d.ms = min_duration => d.err >= 0
    /\ d.ms = max_duration => d.err <= 0

\* C15 as stated: display_duration lies in [500, 10000] in every reachable
\* state, and the delay of every pending tick equals the display_duration it
\* was scheduled from.
C15_DelayIsPeriod ==
    /\ PeriodInRange(display_duration)
    /\ \A i \in DOMAIN ticks :
        /\ ticks[i].period.err = 0
        /\ ticks[i].delay = ticks[i].period.ms

\* C15 as amended: display_duration lies in [500, 10000] in every reachable
\* state, and the delay of every pending tick is the display_duration it was
\* scheduled from truncated to whole milliseconds: a whole number in
\* 500..10000 that is at most the period and more than the period minus one.
\* The tick of the stored handle was scheduled from the display_duration now
\* stored.
C15_DelayIsTruncatedPeriod ==
    /\ PeriodInRange(display_duration)
    /\ \A i \in DOMAIN ticks :
        /\ PeriodInRange(ticks[i].period)
        /\ ticks[i].tracked => ticks[i].period = display_duration
        /\ ticks[i].delay \in min_duration..max_duration
        /\ IF ticks[i].period.err < 0
           THEN ticks[i].delay = ticks[i].period.ms - 1
           ELSE ticks[i].delay = ticks[i].period.ms

\* A tick is pending whose delay is below the period it was scheduled from.
C15_Witness ==
    \E i \in DOMAIN ticks :
        /\ ticks[i].period = display_duration
        /\ display_duration.err < 0
        /\ ticks[i].delay < display_duration.ms

\* C16: in random mode a next_image call that began with
\* 0 <= position < len(history) - 1 was a redo: the position increased by
\* exactly one, current_index became the history entry at the new position,
\* the history is unchanged and no random index was drawn.
C16_Redo ==
    (/\ lastCall.op = "next"
     /\ is_random_mode
     /\ 0 <= lastCall.pos
     /\ lastCall.pos < Len(lastCall.seq) - 1)
        => /\ random_sequence_position = lastCall.pos + 1
           /\ current_index = At(lastCall.seq, random_sequence_position)
           /\ random_sequence = lastCall.seq
           /\ lastCall.draws = 0

\* A redo has just moved to another image and reached the tail of the history.
C16_Witness ==
    /\ is_random_mode
    /\ lastCall.op = "next"
    /\ lastCall.draws = 0
    /\ lastCall.from # current_index
    /\ lastCall.pos = Len(random_sequence) - 2
    /\ random_sequence_position = Len(random_sequence) - 1

\* C17: in random mode a next_image call that began at the tail of the
\* history, on a non-empty catalog, drew an index of the catalog and appended
\* it; if that made the history longer than 15 the result is its most recent
\* 15 entries in their order.  In all cases the position is then
\* len(history) - 1 and the entry there is current_index.
C17_TailAppend ==
    (/\ lastCall.op = "next"
     /\ is_random_mode
     /\ ~(/\ 0 <= lastCall.pos
          /\ lastCall.pos < Len(lastCall.seq) - 1))
        => /\ N > 0 =>
                LET full == Append(lastCall.seq, current_index)
                IN /\ lastCall.draws = 1
                   /\ current_index \in 0..(N - 1)
                   /\ random_sequence = IF Len(full) > 15
                                        THEN SubSeq(full, Len(full) - 14, Len(full))
                                        ELSE full
           /\ random_sequence_position = Len(random_sequence) - 1
           /\ At(random_sequence, random_sequence_position) = current_index

\* A draw has just been appended to a full history, dropping its oldest
\* entry.
C17_Witness ==
    /\ is_random_mode
    /\ N >= 2
    /\ lastCall.op = "next"
    /\ lastCall.draws = 1
    /\ Len(lastCall.seq) = 15
    /\ Len(random_sequence) = 15
    /\ random_sequence[14] = lastCall.seq[15]
    /\ random_sequence[15] = current_index

\* C18: in random mode a previous_image call that began with more than one
\* history entry decremented the position by one, never below 0, and set
\* current_index to the history entry at the new position; begun at position
\* 0 it left the position, the history and current_index unchanged.
C18_StepBack ==
    (/\ lastCall.op = "prev"
     /\ is_random_mode
     /\ Len(lastCall.seq) > 1)
        => /\ random_sequence_position >= 0
           /\ IF lastCall.pos > 0
              THEN /\ random_sequence_position = lastCall.pos - 1
                   /\ current_index = At(random_sequence, random_sequence_position)
              ELSE /\ random_sequence_position = lastCall.pos
                   /\ random_sequence = lastCall.seq
                   /\ current_index = lastCall.from

\* A previous_image call has just stayed at the first entry of a history of
\* more than one entry.
C18_Witness ==
    /\ is_random_mode
    /\ N >= 2
    /\ lastCall.op = "prev"
    /\ Len(lastCall.seq) > 1
    /\ lastCall.pos = 0
    /\ random_sequence_position = 0

\* C19: right after a toggle_random_mode call that entered random mode the
\* history is [current_index] and the position 0; right after one that entered
\* sequential mode the history is empty and the position -1.
C19_ModeSwitchHistory ==
    lastCall.op = "toggle"
        => IF is_random_mode
           THEN random_sequence = <<current_index>> /\ random_sequence_position = 0
           ELSE random_sequence = <<>> /\ random_sequence_position = -1

\* Random mode has just been entered at an index other than 0.
C19_Witness ==
    /\ lastCall.op = "toggle"
    /\ is_random_mode
    /\ current_index > 0
    /\ random_sequence = <<current_index>>

\* C20: in sequential mode with N >= 1, a previous_image call right after a
\* next_image call, and a next_image call right after a previous_image call,
\* return current_index to its value before the pair; and previous_image at
\* index 0 moves to N - 1.
C20_BackwardInvertsForward ==
    [][(~is_random_mode /\ N >= 1)
        => /\ (lastCall.op = "next" /\ ButtonPrevious) => current_index' = lastCall.from
           /\ (lastCall.op = "prev" /\ ButtonNext) => current_index' = lastCall.from
           /\ (current_index = 0 /\ ButtonPrevious) => current_index' = N - 1]_vars

\* C21: a toggle_random_mode call made in random mode (the only way to ask for
\* random mode) keeps the mode random and re-points the position: to the
\* first occurrence of current_index in the history if there is one, else
\* current_index is appended and the position points at it.
C21_RandomRequestedAgain ==
    [][(ToggleRandom /\ is_random_mode)
        => /\ is_random_mode'
           /\ IF \E i \in 1..Len(random_sequence) : random_sequence[i] = current_index
              THEN /\ random_sequence' = random_sequence
                   /\ random_sequence_position' = IndexOf(random_sequence, current_index)
              ELSE /\ random_sequence' = Append(random_sequence, current_index)
                   /\ random_sequence_position' = Len(random_sequence)]_vars

\* C22: an invocation of a debounced handler made while navigation_locked is
\* set, or less than 300 ms after the last accepted press of the same key,
\* is rejected: it calls neither next_image nor previous_image and leaves the
\* navigation state, last_key_time of both keys, navigation_locked, the
\* pending unlock callbacks and the pending ticks unchanged.
C22_RejectedCommandFrame ==
    [][(/\ keyLog'.flip # keyLog.flip
        /\ \/ navigation_locked
           \/ /\ last_key_time[keyLog'.key] # -1
              /\ now - last_key_time[keyLog'.key] < 300)
        => /\ UNCHANGED <<image_files, current_index, is_random_mode, random_sequence,
                          random_sequence_position>>
           /\ UNCHANGED <<last_key_time, navigation_locked, unlocks, ticks, shownId>>
           /\ lastCall'.op = "rejected"]_vars

\* A Left press was rejected although no Left press was ever accepted: the
\* lock set by a Right press is still on.
C22_Witness ==
    /\ lastCall.op = "rejected"
    /\ keyLog.key = "Left"
    /\ last_key_time["Left"] = -1
    /\ last_key_time["Right"] # -1
    /\ navigation_locked
    /\ dispatch = "none"

\* The latest time at which a key press was accepted, -1 if none was.
LastAccepted ==
    IF last_key_time["Left"] > last_key_time["Right"]
    THEN last_key_time["Left"] ELSE last_key_time["Right"]

\* C24: at most one unlock callback is pending at any instant; one is pending
\* exactly while navigation_locked is set, and it is the callback scheduled
\* by the latest accepted press, so no callback clears a lock set by a later
\* acceptance.
C24_OneUnlockPending ==
    /\ Len(unlocks) <= 1
    /\ navigation_locked <=> unlocks # <<>>
    /\ \A i \in DOMAIN unlocks :
        LastAccepted # -1 /\ unlocks[i] = LastAccepted + 300

\* A second press was accepted after the unlock of the first one fired, and
\* its own unlock is pending.
C24_Witness ==
    /\ last_key_time["Right"] # -1
    /\ last_key_time["Left"] >= last_key_time["Right"] + 300
    /\ navigation_locked
    /\ unlocks = <<last_key_time["Left"] + 300>>

\* C23: whenever navigation_locked is set it is cleared again later: the
\* unlock is scheduled by every accepted press, also when next_image or
\* previous_image returned at once on an empty catalog or raised IndexError.
C23_LockEventuallyCleared == navigation_locked ~> ~navigation_locked

\* The lock is set by a press whose navigation call raised IndexError before
\* it displayed anything.
C23_Witness ==
    /\ navigation_locked
    /\ lastCall.op \in {"next", "prev"}
    /\ lastCall.shown = 0
    /\ N > 0
    /\ keyLog.key # "none"

\* C25: in every reachable state with auto-advance running a tick (an
\* after-callback of next_image) is pending, whatever the size of the catalog.
C25_TickPendingWhileRunning == slideshow_running => ticks # <<>>

\* C26: the resample loop of next_image ends: a call that reached the draw
\* leaves it again (with a fair random source), it leaves the loop with the
\* first index drawn that differs from current_index, and with a catalog of
\* one image the loop body never runs.
C26_ResampleTerminates ==
    /\ (new_index # -1) ~> (new_index = -1)
    /\ [][(new_index # -1 /\ new_index # current_index) => new_index' = -1]_vars
    /\ []((N = 1 /\ (new_index # -1 \/ (lastCall.op = "next" /\ lastCall.draws = 1)))
            => resamples = 0)

\* A draw returned current_index at least once, was repeated, and the call
\* ended on another index.
C26_Witness ==
    /\ new_index = -1
    /\ lastCall.op = "next"
    /\ lastCall.draws = 1
    /\ resamples >= 1
    /\ N > 1
    /\ current_index # lastCall.from

\* C27: in every reachable state in random mode with a non-empty catalog the
\* history is non-empty, the position is a valid index of it and the entry at
\* the position is current_index; so a previous_image call in such a state
\* neither appends current_index first nor draws a random index.
C27_HistoryTracksIndex ==
    (is_random_mode /\ N > 0)
        => /\ random_sequence # <<>>
           /\ random_sequence_position \in 0..(Len(random_sequence) - 1)
           /\ random_sequence[random_sequence_position + 1] = current_index
           /\ lastCall.op = "prev"
                => /\ lastCall.draws = 0
                   /\ random_sequence = lastCall.seq

\* previous_image was called at the last item of a history of several items
\* and stepped back.
C27_Witness ==
    /\ is_random_mode
    /\ N > 0
    /\ lastCall.op = "prev"
    /\ Len(lastCall.seq) >= 2
    /\ lastCall.pos = Len(lastCall.seq) - 1
    /\ random_sequence_position = lastCall.pos - 1

\* C28: in every reachable state in sequential mode the history is empty and
\* the position is -1, and a next_image or previous_image call in sequential
\* mode changes, of the navigation state, current_index only.
C28_SequentialHasNoHistory ==
    /\ [](~is_random_mode => (random_sequence = <<>> /\ random_sequence_position = -1))
    /\ [][(~is_random_mode /\ lastCall'.op \in {"next", "prev"})
            => UNCHANGED <<image_files, is_random_mode, random_sequence,
                           random_sequence_position>>]_vars

\* previous_image was called in sequential mode on the first image of a
\* catalog of several images and wrapped to the last one.
C28_Witness ==
    /\ ~is_random_mode
    /\ N >= 2
    /\ lastCall.op = "prev"
    /\ lastCall.from = 0
    /\ current_index = N - 1
    /\ fwdLog.src = "none"

====
